---- MODULE Spec2Model ----
(***************************************************************************)
(* Model of nova/network/vmwareapi_net.py: ensure_vlan_bridge, the         *)
(* create-or-verify reconciler for a VLAN port group on an ESX host.       *)
(* Every remote call of the function is one atomic step of the calling     *)
(* process; several callers run against one shared host.                   *)
(***************************************************************************)
EXTENDS Integers, Sequences, FiniteSets, TLC

\* ---------------------------------------------------------------- bounds
MaxCalls == 2

\* ------------------------------------------------------------- universes
Procs    == {1, 2}
Adapters == {"vmnic0", "nic99"}   \* names FLAGS.vlan_interface may hold
HostNics == {"vmnic0"}            \* physical adapters of the host
Switches == {"vSwitch0", "vSwitch1"}
Uplinked == {"vSwitch0"}          \* vSwitches a physical adapter may back
Bridges  == {"br100", "br101"}
Vlans    == {10, 20}
None     == "None"

HostIps   == {None, "", "10.0.0.1"}
Usernames == {None, "root"}
Passwords == {None, "secret"}

\* the flag settings tried: everything set, or one flag unset or empty
FlagSettings ==
  {f \in [host_ip : HostIps, host_username : Usernames, host_password : Passwords] :
     Cardinality({k \in {"host_ip", "host_username", "host_password"} :
                    f[k] \in {None, ""}}) <= 1}

VARIABLES
  pnics,              \* physical adapters present on the host
  vswitchFor,         \* adapter -> vSwitch backing it, or None
  portgroups,         \* port groups of the host: records name/vswitch/vlanid
  pc,                 \* position of each caller inside ensure_vlan_bridge
  flags,              \* FLAGS.vmwareapi_* as read by the call
  vlan_num, bridge,   \* arguments of the call
  vlan_interface,     \* FLAGS.vlan_interface as read by the call
  session,            \* the VMWareAPISession of the call, or None
  vswitch_associated, \* local of the call
  network_ref,        \* local of the call
  result,             \* how the call ended: normal return or the exception
  ops,                \* remote operations issued by the call, in order
  host0,              \* port groups of the host when the call started
  foreign,            \* port groups other callers created during the call
  prev,               \* the caller's previous call, if it returned or its create failed
  ncalls              \* calls started so far

hostvars == <<pnics, vswitchFor, portgroups>>
locals   == <<flags, vlan_num, bridge, vlan_interface, session,
              vswitch_associated, network_ref>>
vars == <<pnics, vswitchFor, portgroups, pc, flags, vlan_num, bridge,
          vlan_interface, session, vswitch_associated, network_ref, result,
          ops, host0, foreign, prev, ncalls>>

\* ------------------------------------------------------------ host model
PortGroup == [name : Bridges, vswitch : Switches, vlanid : Vlans]

Names(pgs) == {pg.name : pg \in pgs}

UniqueNames(pgs) == \A x, y \in pgs : x.name = y.name => x = y

\* the port groups a host starts with: none, or one left by earlier use
InitialPortGroups == {pgs \in SUBSET PortGroup : Cardinality(pgs) <= 1}

\* NetworkHelper.check_if_vlan_interface_exists
check_if_vlan_interface_exists(a) == a \in pnics

\* NetworkHelper.get_vswitch_for_vlan_interface
get_vswitch_for_vlan_interface(a) == vswitchFor[a]

\* NetworkHelper.get_network_with_the_name: a reference to the network
\* (its name stands for the reference), or None
get_network_with_the_name(pgs, name) ==
  IF name \in Names(pgs) THEN name ELSE None

\* NetworkHelper.get_vlanid_and_vswicth_for_portgroup
get_vlanid_and_vswicth_for_portgroup(pgs, name) ==
  LET pg == CHOOSE x \in pgs : x.name = name
  IN  <<pg.vlanid, pg.vswitch>>

\* NetworkHelper.create_port_group: the faults the host may answer with.
\* An existing name is always refused; any creation may fail on the host.
CreateFaults(pgs, name) ==
  IF name \in Names(pgs) THEN {"AlreadyExists"} ELSE {"ok", "HostFault"}

\* the host's port groups after create_port_group answered with fault f
create_port_group(pgs, name, vswitch, vlanid, f) ==
  IF f = "ok"
  THEN pgs \cup {[name |-> name, vswitch |-> vswitch, vlanid |-> vlanid]}
  ELSE pgs

\* ------------------------------------------------------- call outcomes
NoResult == [kind |-> "none"]
Success  == [kind |-> "ok"]
ConfigurationError == [kind |-> "ConfigurationError", exc |-> "Exception"]
AdapterNotFound(a) ==
  [kind |-> "AdapterNotFound", exc |-> "NotFound", adapter |-> a]
SwitchNotAssociated(a) ==
  [kind |-> "SwitchNotAssociated", exc |-> "NotFound", adapter |-> a]
SwitchConflict(b, expected, actual) ==
  [kind |-> "SwitchConflict", exc |-> "Invalid", bridge |-> b,
   expected |-> expected, actual |-> actual]
VlanConflict(b, expected, actual) ==
  [kind |-> "VlanConflict", exc |-> "Invalid", bridge |-> b,
   expected |-> expected, actual |-> actual]
MutationFailed(cause) == [kind |-> "MutationFailed", cause |-> cause]

Op(name, args, ret) == [op |-> name, args |-> args, ret |-> ret]

NoCall == [kind |-> "none"]

\* ------------------------------------------------- decisions of the code
\* an empty host address is let through
FlagsMissing_ipnone(f) ==
  \/ f.host_ip = None
  \/ f.host_username = None
  \/ f.host_password = None

\* line 44
FlagsMissing(f) ==
  \/ f.host_ip = None \/ f.host_ip = ""
  \/ f.host_username = None
  \/ f.host_password = None

\* the adapter check never fails
AdapterMissing_never(exists) == FALSE

\* the adapter check is inverted
AdapterMissing_inverted(exists) == exists

\* line 53
AdapterMissing(exists) == ~exists

\* the vSwitch check never fails
NoVswitch_never(vs) == FALSE

\* line 61
NoVswitch(vs) == vs = None

\* the network is taken as absent whatever the lookup returned
NetworkAbsent_always(ref) == TRUE

\* line 68
NetworkAbsent(ref) == ref = None

\* the vSwitch comparison always / never reports a difference
VswitchDiffers_always(pg_vswitch, vs) == TRUE

VswitchDiffers_never(pg_vswitch, vs) == FALSE

\* line 79
VswitchDiffers(pg_vswitch, vs) == pg_vswitch # vs

\* the VLAN comparison never reports a difference
VlanDiffers_never(pg_vlanid, vlan) == FALSE

\* line 90
VlanDiffers(pg_vlanid, vlan) == pg_vlanid # vlan

\* --------------------------------------------------------------- Init
Init ==
  /\ pnics = HostNics
  /\ vswitchFor \in [Adapters -> Uplinked \cup {None}]
  /\ \A a \in Adapters : a \notin pnics => vswitchFor[a] = None
  /\ portgroups \in InitialPortGroups
  /\ UniqueNames(portgroups)
  /\ pc = [p \in Procs |-> "idle"]
  /\ flags = [p \in Procs |-> None]
  /\ vlan_num = [p \in Procs |-> 0]
  /\ bridge = [p \in Procs |-> None]
  /\ vlan_interface = [p \in Procs |-> None]
  /\ session = [p \in Procs |-> None]
  /\ vswitch_associated = [p \in Procs |-> None]
  /\ network_ref = [p \in Procs |-> None]
  /\ result = [p \in Procs |-> NoResult]
  /\ ops = [p \in Procs |-> <<>>]
  /\ host0 = [p \in Procs |-> {}]
  /\ foreign = [p \in Procs |-> {}]
  /\ prev = [p \in Procs |-> NoCall]
  /\ ncalls = 0

\* ------------------------------------------------------------- actions
\* a raise: the call ends with exception e
Raise(p, e) ==
  /\ result' = [result EXCEPT ![p] = e]
  /\ pc' = [pc EXCEPT ![p] = "done"]

\* a caller whose previous creation failed is answered from that failure
Invoke_remember(p) ==
  /\ pc[p] = "idle"
  /\ ncalls < MaxCalls
  /\ ncalls' = ncalls + 1
  /\ \E v \in Vlans, b \in Bridges, a \in Adapters, f \in FlagSettings :
           /\ vlan_num' = [vlan_num EXCEPT ![p] = v]
           /\ bridge' = [bridge EXCEPT ![p] = b]
           /\ vlan_interface' = [vlan_interface EXCEPT ![p] = a]
           /\ flags' = [flags EXCEPT ![p] = f]
           /\ IF FlagsMissing(f)
              THEN Raise(p, ConfigurationError)
              ELSE IF prev[p].kind = "MutationFailed"
              THEN Raise(p, MutationFailed("HostFault"))
              ELSE /\ pc' = [pc EXCEPT ![p] = "l49"]
                   /\ result' = [result EXCEPT ![p] = NoResult]
  /\ ops' = [ops EXCEPT ![p] = <<>>]
  /\ host0' = [host0 EXCEPT ![p] = portgroups]
  /\ foreign' = [foreign EXCEPT ![p] = {}]
  /\ UNCHANGED <<hostvars, session, vswitch_associated, network_ref, prev>>

\* lines 38-48: the call is made, the flags are read and checked
Invoke(p) ==
  /\ pc[p] = "idle"
  /\ ncalls < MaxCalls
  /\ ncalls' = ncalls + 1
  /\ \E v \in Vlans, b \in Bridges, a \in Adapters, f \in FlagSettings :
           /\ vlan_num' = [vlan_num EXCEPT ![p] = v]
           /\ bridge' = [bridge EXCEPT ![p] = b]
           /\ vlan_interface' = [vlan_interface EXCEPT ![p] = a]
           /\ flags' = [flags EXCEPT ![p] = f]
           /\ IF FlagsMissing(f)
              THEN Raise(p, ConfigurationError)
              ELSE /\ pc' = [pc EXCEPT ![p] = "l49"]
                   /\ result' = [result EXCEPT ![p] = NoResult]
  /\ ops' = [ops EXCEPT ![p] = <<>>]
  /\ host0' = [host0 EXCEPT ![p] = portgroups]
  /\ foreign' = [foreign EXCEPT ![p] = {}]
  /\ UNCHANGED <<hostvars, session, vswitch_associated, network_ref, prev>>

\* lines 49-50: the session is opened
OpenSession(p) ==
  /\ pc[p] = "l49"
  /\ session' = [session EXCEPT ![p] = "session"]
  /\ ops' = [ops EXCEPT ![p] = Append(@, Op("VMWareAPISession", <<>>, "session"))]
  /\ pc' = [pc EXCEPT ![p] = "l53"]
  /\ UNCHANGED <<hostvars, flags, vlan_num, bridge, vlan_interface,
                 vswitch_associated, network_ref, result, host0, foreign,
                 prev, ncalls>>

\* lines 51-56: does the physical adapter exist
CheckVlanInterface(p) ==
  /\ pc[p] = "l53"
  /\ LET exists == check_if_vlan_interface_exists(vlan_interface[p])
     IN  /\ ops' = [ops EXCEPT ![p] = Append(@,
                      Op("check_if_vlan_interface_exists",
                         <<vlan_interface[p]>>, IF exists THEN "True" ELSE "False"))]
         /\ IF AdapterMissing(exists)
            THEN Raise(p, AdapterNotFound(vlan_interface[p]))
            ELSE /\ pc' = [pc EXCEPT ![p] = "l59"]
                 /\ UNCHANGED result
  /\ UNCHANGED <<hostvars, locals, host0, foreign, prev, ncalls>>

\* lines 58-64: the vSwitch of the adapter
GetVswitch(p) ==
  /\ pc[p] = "l59"
  /\ LET vs == get_vswitch_for_vlan_interface(vlan_interface[p])
     IN  /\ ops' = [ops EXCEPT ![p] = Append(@,
                      Op("get_vswitch_for_vlan_interface",
                         <<vlan_interface[p]>>, vs))]
         /\ vswitch_associated' = [vswitch_associated EXCEPT ![p] = vs]
         /\ IF NoVswitch(vs)
            THEN Raise(p, SwitchNotAssociated(vlan_interface[p]))
            ELSE /\ pc' = [pc EXCEPT ![p] = "l67"]
                 /\ UNCHANGED result
  /\ UNCHANGED <<hostvars, flags, vlan_num, bridge, vlan_interface, session,
                 network_ref, host0, foreign, prev, ncalls>>

\* the lookup makes the port group when it finds none
GetNetwork_getorcreate(p) ==
  /\ pc[p] = "l67"
  /\ LET ref == get_network_with_the_name(portgroups, bridge[p])
     IN  /\ ops' = [ops EXCEPT ![p] = Append(@,
                      Op("get_network_with_the_name", <<bridge[p]>>, ref))]
         /\ network_ref' = [network_ref EXCEPT ![p] = bridge[p]]
         /\ portgroups' =
              IF ref = None
              THEN portgroups \cup {[name |-> bridge[p],
                                     vswitch |-> vswitch_associated[p],
                                     vlanid |-> vlan_num[p]]}
              ELSE portgroups
         /\ pc' = [pc EXCEPT ![p] = "l75"]
  /\ UNCHANGED <<pnics, vswitchFor, flags, vlan_num, bridge, vlan_interface,
                 session, vswitch_associated, result, host0, foreign, prev,
                 ncalls>>

\* lines 65-68: is there a network named bridge
GetNetwork(p) ==
  /\ pc[p] = "l67"
  /\ LET ref == get_network_with_the_name(portgroups, bridge[p])
     IN  /\ ops' = [ops EXCEPT ![p] = Append(@,
                      Op("get_network_with_the_name", <<bridge[p]>>, ref))]
         /\ network_ref' = [network_ref EXCEPT ![p] = ref]
         /\ pc' = [pc EXCEPT ![p] = IF NetworkAbsent(ref) THEN "l71" ELSE "l75"]
  /\ UNCHANGED <<hostvars, flags, vlan_num, bridge, vlan_interface, session,
                 vswitch_associated, result, host0, foreign, prev, ncalls>>

\* a fault of create_port_group is swallowed
CreateOutcome_swallow(f) == Success

\* the refusal of an existing name is taken as success
CreateOutcome_ignoreexists(f) ==
  IF f \in {"ok", "AlreadyExists"} THEN Success ELSE MutationFailed(f)

\* What the caller gets when create_port_group answered with fault f:
\* the call is not guarded, an exception leaves ensure_vlan_bridge as it is
CreateOutcome(f) == IF f = "ok" THEN Success ELSE MutationFailed(f)

\* the VLAN id is left at its default / name and vSwitch are swapped
CreateArgs_untagged(b, vs, vlan) == <<b, vs, 0>>

CreateArgs_swapped(b, vs, vlan) == <<vs, b, vlan>>

\* lines 71-72: the arguments handed to create_port_group
CreateArgs(b, vs, vlan) == <<b, vs, vlan>>

\* after a successful creation the new port group is read back and checked
CreatePortGroup_thenverify(p) ==
  /\ pc[p] = "l71"
  /\ LET args == CreateArgs(bridge[p], vswitch_associated[p], vlan_num[p])
     IN  \E f \in CreateFaults(portgroups, args[1]) :
           LET new == create_port_group(portgroups, args[1], args[2], args[3], f)
           IN  /\ portgroups' = new
               /\ foreign' = [q \in Procs |->
                                IF q # p /\ pc[q] # "idle"
                                THEN foreign[q] \cup (new \ portgroups)
                                ELSE foreign[q]]
               /\ ops' = [ops EXCEPT ![p] = Append(@,
                            Op("create_port_group", args, f))]
               /\ IF f = "ok"
                  THEN pc' = [pc EXCEPT ![p] = "l75"] /\ UNCHANGED result
                  ELSE Raise(p, CreateOutcome(f))
  /\ UNCHANGED <<pnics, vswitchFor, locals, host0, prev, ncalls>>

\* lines 69-72: the port group is created
CreatePortGroup(p) ==
  /\ pc[p] = "l71"
  /\ LET args == CreateArgs(bridge[p], vswitch_associated[p], vlan_num[p])
     IN  \E f \in CreateFaults(portgroups, args[1]) :
           LET new == create_port_group(portgroups, args[1], args[2], args[3], f)
           IN  /\ portgroups' = new
               /\ foreign' = [q \in Procs |->
                                IF q # p /\ pc[q] # "idle"
                                THEN foreign[q] \cup (new \ portgroups)
                                ELSE foreign[q]]
               /\ ops' = [ops EXCEPT ![p] = Append(@,
                            Op("create_port_group", args, f))]
               /\ Raise(p, CreateOutcome(f))
  /\ UNCHANGED <<pnics, vswitchFor, locals, host0, prev, ncalls>>

\* the VLAN is compared before the vSwitch
Verify_vlanfirst(b, vs, vlan, pg_vlanid, pg_vswitch) ==
  IF VlanDiffers(pg_vlanid, vlan) THEN VlanConflict(b, vlan, pg_vlanid)
  ELSE IF VswitchDiffers(pg_vswitch, vs) THEN SwitchConflict(b, vs, pg_vswitch)
  ELSE Success

\* an existing port group is accepted as it is
Verify_existsok(b, vs, vlan, pg_vlanid, pg_vswitch) == Success

\* The outcome of the checks of lines 78-97
Verify(b, vs, vlan, pg_vlanid, pg_vswitch) ==
  IF VswitchDiffers(pg_vswitch, vs) THEN SwitchConflict(b, vs, pg_vswitch)
  ELSE IF VlanDiffers(pg_vlanid, vlan) THEN VlanConflict(b, vlan, pg_vlanid)
  ELSE Success

\* a mismatching port group is rebound to the desired vSwitch and VLAN
VerifyPortGroup_overwrite(p) ==
  /\ pc[p] = "l75"
  /\ LET pg == get_vlanid_and_vswicth_for_portgroup(portgroups, bridge[p])
         old == [name |-> bridge[p], vswitch |-> pg[2], vlanid |-> pg[1]]
         want == [name |-> bridge[p], vswitch |-> vswitch_associated[p],
                  vlanid |-> vlan_num[p]]
     IN  /\ ops' = [ops EXCEPT ![p] = Append(@,
                      Op("get_vlanid_and_vswicth_for_portgroup",
                         <<bridge[p]>>, pg[2]))]
         /\ portgroups' = (portgroups \ {old}) \cup {want}
         /\ Raise(p, Success)
  /\ UNCHANGED <<pnics, vswitchFor, locals, host0, foreign, prev, ncalls>>

\* a mismatching port group is removed before the conflict is raised
VerifyPortGroup_delete(p) ==
  /\ pc[p] = "l75"
  /\ LET pg == get_vlanid_and_vswicth_for_portgroup(portgroups, bridge[p])
         old == [name |-> bridge[p], vswitch |-> pg[2], vlanid |-> pg[1]]
         out == Verify(bridge[p], vswitch_associated[p], vlan_num[p],
                       pg[1], pg[2])
     IN  /\ ops' = [ops EXCEPT ![p] = Append(@,
                      Op("get_vlanid_and_vswicth_for_portgroup",
                         <<bridge[p]>>, pg[2]))]
         /\ portgroups' = IF out = Success THEN portgroups
                          ELSE portgroups \ {old}
         /\ Raise(p, out)
  /\ UNCHANGED <<pnics, vswitchFor, locals, host0, foreign, prev, ncalls>>

\* lines 73-97: the existing port group is read and checked
VerifyPortGroup(p) ==
  /\ pc[p] = "l75"
  /\ LET pg == get_vlanid_and_vswicth_for_portgroup(portgroups, bridge[p])
         pg_vlanid == pg[1]
         pg_vswitch == pg[2]
     IN  /\ ops' = [ops EXCEPT ![p] = Append(@,
                      Op("get_vlanid_and_vswicth_for_portgroup",
                         <<bridge[p]>>, pg_vswitch))]
         /\ Raise(p, Verify(bridge[p], vswitch_associated[p], vlan_num[p],
                            pg_vlanid, pg_vswitch))
  /\ UNCHANGED <<hostvars, locals, host0, foreign, prev, ncalls>>

\* the caller takes the outcome; nothing of the call is kept by the function
Return(p) ==
  /\ pc[p] = "done"
  /\ prev' = [prev EXCEPT ![p] =
                IF result[p].kind \in {"ok", "MutationFailed"}
                THEN [kind |-> result[p].kind, vlan_num |-> vlan_num[p],
                      bridge |-> bridge[p],
                      vlan_interface |-> vlan_interface[p], host |-> portgroups]
                ELSE NoCall]
  /\ pc' = [pc EXCEPT ![p] = "idle"]
  /\ flags' = [flags EXCEPT ![p] = None]
  /\ vlan_num' = [vlan_num EXCEPT ![p] = 0]
  /\ bridge' = [bridge EXCEPT ![p] = None]
  /\ vlan_interface' = [vlan_interface EXCEPT ![p] = None]
  /\ session' = [session EXCEPT ![p] = None]
  /\ vswitch_associated' = [vswitch_associated EXCEPT ![p] = None]
  /\ network_ref' = [network_ref EXCEPT ![p] = None]
  /\ result' = [result EXCEPT ![p] = NoResult]
  /\ ops' = [ops EXCEPT ![p] = <<>>]
  /\ host0' = [host0 EXCEPT ![p] = {}]
  /\ foreign' = [foreign EXCEPT ![p] = {}]
  /\ UNCHANGED <<hostvars, ncalls>>

Next ==
  \E p \in Procs :
    \/ Invoke(p)
    \/ OpenSession(p)
    \/ CheckVlanInterface(p)
    \/ GetVswitch(p)
    \/ GetNetwork(p)
    \/ CreatePortGroup(p)
    \/ VerifyPortGroup(p)
    \/ Return(p)

Spec == Init /\ [][Next]_vars

\* ------------------------------------------------------------ properties
\* the creation calls of the current call of p, in order
Creates(p) == SelectSeq(ops[p], LAMBDA e : e.op = "create_port_group")

\* did the current call of p issue the remote operation name
Issued(p, name) == \E i \in 1..Len(ops[p]) : ops[p][i].op = name

\* the current call of p has ended and its flags were complete
Ended(p) == pc[p] = "done" /\ ~FlagsMissing(flags[p])

\* the vSwitch backing the adapter of the current call of p
Backing(p) == vswitchFor[vlan_interface[p]]

\* the adapter of the current call of p exists and has a vSwitch
Resolved(p) == vlan_interface[p] \in pnics /\ Backing(p) # None

\* the desired port group of the current call of p
Desired(p) ==
  [name |-> bridge[p], vswitch |-> Backing(p), vlanid |-> vlan_num[p]]

\* the current call of p repeats the caller's previous, successful call on
\* the host state that call left, and no other caller changed the host
Repeats(p) ==
  /\ Ended(p)
  /\ prev[p].kind = "ok"
  /\ prev[p].vlan_num = vlan_num[p]
  /\ prev[p].bridge = bridge[p]
  /\ prev[p].vlan_interface = vlan_interface[p]
  /\ prev[p].host = host0[p]
  /\ foreign[p] = {}

\* C1: a reconcile call that repeats a successful one on the host state it
\* left, nobody else changing the host, succeeds and issues no creation call
C1_Idempotence ==
  \A p \in Procs :
    Repeats(p) => result[p] = Success /\ Creates(p) = <<>>

\* a repeated call has ended after a first call that created the port group
C1_Witness ==
  \E p \in Procs :
    /\ Repeats(p)
    /\ result[p] = Success
    /\ Issued(p, "get_vlanid_and_vswicth_for_portgroup")
    /\ Desired(p) \in portgroups
    /\ portgroups # {}

\* C2: an existing port group keeps its binding and is never removed, and a
\* port group name has at most one (vSwitch, VLAN) binding in every state
C2_NeverOverwrite ==
  /\ [][\A pg \in portgroups : pg \in portgroups']_vars
  /\ [](UniqueNames(portgroups))

\* a call asking for another binding of an existing port group has ended in
\* a conflict, and the port group is still there with its old binding
C2_Witness ==
  \E p \in Procs :
    /\ Ended(p)
    /\ result[p].kind \in {"SwitchConflict", "VlanConflict"}
    /\ \E pg \in host0[p] :
         pg.name = bridge[p] /\ pg # Desired(p) /\ pg \in portgroups

\* the create path: adapter resolved, no port group of that name when the call
\* started, nobody else changing the host during the call
CreatePath(p) ==
  /\ Ended(p)
  /\ Resolved(p)
  /\ bridge[p] \notin Names(host0[p])
  /\ foreign[p] = {}

\* exactly one creation call, with (bridge, vSwitch, VLAN)
OneCreate(p) ==
  /\ Len(Creates(p)) = 1
  /\ Creates(p)[1].args = <<bridge[p], Backing(p), vlan_num[p]>>

\* C3 as stated: on the create path the call issues exactly one creation call
\* with (B, S, v) and returns success
C3_Original ==
  \A p \in Procs : CreatePath(p) => OneCreate(p) /\ result[p] = Success

\* C3 amended: on the create path the call issues exactly one creation call
\* with (B, S, v), and returns success when that creation call succeeds
C3_CreatePath ==
  \A p \in Procs :
    CreatePath(p) =>
      /\ OneCreate(p)
      /\ Creates(p)[1].ret = "ok" => result[p] = Success

\* a call on the create path has created its port group
C3_Witness ==
  \E p \in Procs :
    /\ CreatePath(p)
    /\ result[p] = Success
    /\ Desired(p) \in portgroups \ host0[p]

\* C4: when the desired port group already exists with the desired vSwitch
\* and VLAN, the call issues no creation call, succeeds and leaves the host
\* as it was (up to what other callers created)
C4_VerifyMatch ==
  \A p \in Procs :
    (Ended(p) /\ Resolved(p) /\ Desired(p) \in host0[p]) =>
      /\ Creates(p) = <<>>
      /\ result[p] = Success
      /\ portgroups = host0[p] \cup foreign[p]

\* a call has verified a matching port group that was there before it
C4_Witness ==
  \E p \in Procs :
    /\ Ended(p) /\ Resolved(p) /\ Desired(p) \in host0[p]
    /\ Issued(p, "get_vlanid_and_vswicth_for_portgroup")
    /\ portgroups = host0[p]

\* the port group named as the bridge of p's call, when the call started
Existing(p) == {pg \in host0[p] : pg.name = bridge[p]}

\* C5: when the port group exists on a vSwitch S2 other than S, the vSwitch
\* of the adapter, the call ends with SwitchConflict(B, S, S2) and issues no
\* creation call
C5_SwitchConflict ==
  \A p \in Procs :
    \A pg \in Existing(p) :
      (Ended(p) /\ Resolved(p) /\ pg.vswitch # Backing(p)) =>
        /\ result[p] = SwitchConflict(bridge[p], Backing(p), pg.vswitch)
        /\ Creates(p) = <<>>

\* a call has found its port group on the other vSwitch, with the desired VLAN
C5_Witness ==
  \E p \in Procs :
    \E pg \in Existing(p) :
      /\ Ended(p) /\ Resolved(p) /\ pg.vswitch # Backing(p)
      /\ pg.vlanid = vlan_num[p]
      /\ result[p].kind = "SwitchConflict"

\* C6: when the port group exists on the vSwitch of the adapter with a VLAN w
\* other than the desired v, the call ends with VlanConflict(B, v, w) and
\* issues no creation call
C6_VlanConflict ==
  \A p \in Procs :
    \A pg \in Existing(p) :
      (Ended(p) /\ Resolved(p) /\ pg.vswitch = Backing(p)
         /\ pg.vlanid # vlan_num[p]) =>
        /\ result[p] = VlanConflict(bridge[p], vlan_num[p], pg.vlanid)
        /\ Creates(p) = <<>>

\* a call has found its port group on the right vSwitch with another VLAN
C6_Witness ==
  \E p \in Procs :
    \E pg \in Existing(p) :
      /\ Ended(p) /\ Resolved(p) /\ pg.vswitch = Backing(p)
      /\ pg.vlanid # vlan_num[p]
      /\ result[p].kind = "VlanConflict"

\* C7: when the adapter does not exist on the host, the call ends with
\* AdapterNotFound(adapter) having issued no vSwitch lookup, no port group
\* query and no creation call
C7_MissingAdapter ==
  \A p \in Procs :
    (Ended(p) /\ vlan_interface[p] \notin pnics) =>
      /\ result[p] = AdapterNotFound(vlan_interface[p])
      /\ ~Issued(p, "get_vswitch_for_vlan_interface")
      /\ ~Issued(p, "get_network_with_the_name")
      /\ ~Issued(p, "get_vlanid_and_vswicth_for_portgroup")
      /\ ~Issued(p, "create_port_group")

\* a call for an adapter the host does not have has ended, after the lookup
C7_Witness ==
  \E p \in Procs :
    /\ Ended(p) /\ vlan_interface[p] \notin pnics
    /\ Issued(p, "check_if_vlan_interface_exists")
    /\ result[p].kind = "AdapterNotFound"

\* C8: when the adapter exists but no vSwitch backs it, the call ends with
\* SwitchNotAssociated having issued no port group query and no creation call
C8_NoDanglingAdapter ==
  \A p \in Procs :
    (Ended(p) /\ vlan_interface[p] \in pnics /\ Backing(p) = None) =>
      /\ result[p] = SwitchNotAssociated(vlan_interface[p])
      /\ ~Issued(p, "get_network_with_the_name")
      /\ ~Issued(p, "get_vlanid_and_vswicth_for_portgroup")
      /\ ~Issued(p, "create_port_group")

\* a call for an adapter without vSwitch has ended, after the vSwitch lookup
C8_Witness ==
  \E p \in Procs :
    /\ Ended(p) /\ vlan_interface[p] \in pnics /\ Backing(p) = None
    /\ Issued(p, "get_vswitch_for_vlan_interface")
    /\ result[p].kind = "SwitchNotAssociated"

\* the current call of p looked the port group up and found none
SawAbsent(p) ==
  \E i \in 1..Len(ops[p]) :
    /\ ops[p][i].op = "get_network_with_the_name"
    /\ ops[p][i].ret = None

\* C9: nothing serialises check and create: two calls for one bridge name that
\* both saw the port group absent both go on to one creation call for that
\* name, and the two creations never both succeed
C9_RaceWindow ==
  \A p, q \in Procs :
    (p # q /\ pc[p] = "done" /\ pc[q] = "done" /\ bridge[p] = bridge[q]
       /\ SawAbsent(p) /\ SawAbsent(q)) =>
      /\ Len(Creates(p)) = 1 /\ Creates(p)[1].args[1] = bridge[p]
      /\ Len(Creates(q)) = 1 /\ Creates(q)[1].args[1] = bridge[q]
      /\ ~(Creates(p)[1].ret = "ok" /\ Creates(q)[1].ret = "ok")

\* the interleaving: both calls saw the port group absent, both attempted the
\* creation, one created it and the other was refused
C9_Witness ==
  \E p, q \in Procs :
    /\ p # q /\ pc[p] = "done" /\ pc[q] = "done" /\ bridge[p] = bridge[q]
    /\ SawAbsent(p) /\ SawAbsent(q)
    /\ Creates(p)[1].ret = "ok"
    /\ Creates(q)[1].ret = "AlreadyExists"

\* C10: a call whose creation call failed ends with MutationFailed carrying
\* the fault as raised; it does not succeed, and the failed creation is its
\* only creation call and its last remote operation
C10_MutationSurfaced ==
  \A p \in Procs :
    (pc[p] = "done" /\ Creates(p) # <<>> /\ Creates(p)[1].ret # "ok") =>
      /\ result[p] = MutationFailed(Creates(p)[1].ret)
      /\ result[p] # Success
      /\ Len(Creates(p)) = 1
      /\ ops[p][Len(ops[p])].op = "create_port_group"

\* the loser of a race for one bridge name has ended with the host's refusal
C10_Witness ==
  \E p \in Procs :
    /\ pc[p] = "done"
    /\ bridge[p] \notin Names(host0[p])
    /\ result[p] = MutationFailed("AlreadyExists")

\* the names of the remote operations of the current call of p, in order
OpNames(p) == [i \in 1..Len(ops[p]) |-> ops[p][i].op]

\* the order of the remote operations up to the port group lookup
QueryOrder ==
  <<"VMWareAPISession", "check_if_vlan_interface_exists",
    "get_vswitch_for_vlan_interface", "get_network_with_the_name">>

\* did the remote operation e let the call go on
Passed(e) ==
  CASE e.op = "check_if_vlan_interface_exists" -> e.ret = "True"
    [] e.op = "get_vswitch_for_vlan_interface" -> e.ret # None
    [] e.op = "create_port_group" -> FALSE
    [] e.op = "get_vlanid_and_vswicth_for_portgroup" -> FALSE
    [] OTHER -> TRUE

\* C11: the remote operations of a call come in the order session, adapter
\* lookup, vSwitch lookup, port group lookup, then the creation only when the
\* lookup found nothing; an operation is issued only after every earlier
\* check passed, and a failing check ends the call
C11_QueryOrder ==
  \A p \in Procs :
    LET n == Len(ops[p]) IN
      /\ \A i \in 1..n :
           /\ i <= 4 => ops[p][i].op = QueryOrder[i]
           /\ i = 5 => /\ ops[p][4].ret = None
                         => ops[p][5].op = "create_port_group"
                       /\ ops[p][4].ret # None
                         => ops[p][5].op = "get_vlanid_and_vswicth_for_portgroup"
           /\ i < n => Passed(ops[p][i])
      /\ n <= 5
      /\ (n > 0 /\ ~Passed(ops[p][n])) => pc[p] = "done"

\* a call has run through all four lookups and the creation, in this order
C11_Witness ==
  \E p \in Procs :
    /\ pc[p] = "done"
    /\ OpNames(p) = QueryOrder \o <<"create_port_group">>

\* C12: a call issues at most one creation call, and the creation call, when
\* issued, is the last remote operation of the call
C12_AtMostOneMutation ==
  \A p \in Procs :
    /\ Len(Creates(p)) <= 1
    /\ \A i \in 1..Len(ops[p]) :
         ops[p][i].op = "create_port_group" => i = Len(ops[p])

\* a call has ended after a successful creation, its last remote operation
C12_Witness ==
  \E p \in Procs :
    /\ pc[p] = "done"
    /\ Len(Creates(p)) = 1
    /\ ops[p][Len(ops[p])].op = "create_port_group"
    /\ ops[p][Len(ops[p])].ret = "ok"

\* C13: as long as a call has not issued its creation call, the port groups
\* of the host are those of the start of the call plus what other callers
\* created since: the call itself has changed nothing
C13_NoEffectBeforeCreate ==
  \A p \in Procs :
    (pc[p] # "idle" /\ Creates(p) = <<>>) =>
      portgroups = host0[p] \cup foreign[p]

\* a call stands right before its creation call, all lookups done
C13_Witness ==
  \E p \in Procs :
    /\ pc[p] = "l71"
    /\ OpNames(p) = QueryOrder
    /\ portgroups = host0[p]

\* the current call of p retries the caller's previous call, whose creation
\* failed and left no port group of that name, nobody else changing the host
Retries(p) ==
  /\ Ended(p)
  /\ prev[p].kind = "MutationFailed"
  /\ prev[p].vlan_num = vlan_num[p]
  /\ prev[p].bridge = bridge[p]
  /\ prev[p].vlan_interface = vlan_interface[p]
  /\ prev[p].host = host0[p]
  /\ bridge[p] \notin Names(host0[p])
  /\ foreign[p] = {}

\* C14: a call retrying one whose creation failed and left nothing behind
\* issues every lookup afresh and exactly one creation call with (B, S, v);
\* when that creation succeeds the call succeeds and B is bound to (S, v)
C14_RetryAfterFailure ==
  \A p \in Procs :
    Retries(p) =>
      /\ OpNames(p) = QueryOrder \o <<"create_port_group">>
      /\ OneCreate(p)
      /\ Creates(p)[1].ret = "ok" =>
           result[p] = Success /\ Desired(p) \in portgroups

\* a retry has created the port group its failed predecessor could not
C14_Witness ==
  \E p \in Procs :
    /\ Retries(p)
    /\ result[p] = Success
    /\ Desired(p) \in portgroups \ host0[p]

\* C15: an existing port group differing in vSwitch and in VLAN gives
\* SwitchConflict; VlanConflict is given only when the port group is on the
\* vSwitch of the adapter
C15_ConflictPrecedence ==
  \A p \in Procs :
    Ended(p) =>
      /\ \A pg \in Existing(p) :
           (Resolved(p) /\ pg.vswitch # Backing(p) /\ pg.vlanid # vlan_num[p])
             => result[p].kind = "SwitchConflict"
      /\ result[p].kind = "VlanConflict" =>
           \E pg \in portgroups :
             /\ pg.name = bridge[p]
             /\ pg.vswitch = Backing(p)
             /\ pg.vlanid # vlan_num[p]

\* a call has met a port group differing in both vSwitch and VLAN
C15_Witness ==
  \E p \in Procs :
    \E pg \in Existing(p) :
      /\ Ended(p) /\ Resolved(p)
      /\ pg.vswitch # Backing(p) /\ pg.vlanid # vlan_num[p]
      /\ result[p] = SwitchConflict(bridge[p], Backing(p), pg.vswitch)

\* a flag of the current call of p is unset, or its host address is empty
Unconfigured(p) ==
  \/ flags[p].host_ip \in {None, ""}
  \/ flags[p].host_username = None
  \/ flags[p].host_password = None

\* C16: with the host address missing or empty, or user name or password
\* unset, the call ends with the configuration error, without a session and
\* without any remote operation
C16_ConfigurationFirst ==
  \A p \in Procs :
    (pc[p] \notin {"idle"} /\ Unconfigured(p)) =>
      /\ pc[p] = "done"
      /\ result[p] = ConfigurationError
      /\ session[p] = None
      /\ ops[p] = <<>>
      /\ portgroups = host0[p] \cup foreign[p]

\* a call with an empty host address has ended
C16_Witness ==
  \E p \in Procs :
    /\ pc[p] = "done"
    /\ flags[p].host_ip = ""
    /\ result[p] = ConfigurationError

\* C17: when a call returns normally, the adapter has a vSwitch S and the
\* host has the port group B bound to exactly (S, v)
C17_SuccessPostcondition ==
  \A p \in Procs :
    (pc[p] = "done" /\ result[p] = Success) =>
      /\ Resolved(p)
      /\ Desired(p) \in portgroups
      /\ \A pg \in portgroups : pg.name = bridge[p] => pg = Desired(p)

\* a call has returned normally after another caller created its port group
C17_Witness ==
  \E p \in Procs :
    /\ pc[p] = "done" /\ result[p] = Success
    /\ Desired(p) \in foreign[p]

\* the current calls of p and q run against each other: one bridge name and
\* adapter, different VLANs, the port group absent when either call started
Rivals(p, q) ==
  /\ p # q
  /\ Ended(p) /\ Ended(q)
  /\ Resolved(p) /\ Resolved(q)
  /\ bridge[p] = bridge[q]
  /\ vlan_interface[p] = vlan_interface[q]
  /\ vlan_num[p] # vlan_num[q]
  /\ bridge[p] \notin Names(host0[p])
  /\ bridge[q] \notin Names(host0[q])

\* C18: of two calls for one bridge name with different VLANs on a host
\* without that port group, at most one returns normally; the port group is
\* then bound as that call desired and the other call has ended with
\* VlanConflict or MutationFailed
C18_ConflictingDesires ==
  \A p, q \in Procs :
    Rivals(p, q) =>
      /\ ~(result[p] = Success /\ result[q] = Success)
      /\ result[p] = Success =>
           /\ \A pg \in portgroups : pg.name = bridge[p] => pg = Desired(p)
           /\ Desired(p) \in portgroups
           /\ result[q].kind \in {"VlanConflict", "MutationFailed"}

\* one call has created the port group and its rival, looking it up
\* afterwards, has ended with the VLAN conflict
C18_Witness ==
  \E p, q \in Procs :
    /\ Rivals(p, q)
    /\ result[p] = Success
    /\ result[q] = VlanConflict(bridge[q], vlan_num[q], vlan_num[p])

\* C19: a port group found by the first lookup is there at the second one
\* with the binding it had: while a call stands between the two lookups, the
\* port group of its bridge name exists and no step changes or removes it
C19_TwoStepLookup ==
  /\ [](\A p \in Procs :
          (pc[p] = "l75" /\ network_ref[p] # None) =>
            \E pg \in portgroups : pg.name = bridge[p])
  /\ [][\A p \in Procs :
          pc[p] = "l75" =>
            \A pg \in portgroups : pg.name = bridge[p] => pg \in portgroups']_vars

\* a call stands between its two lookups while another caller is at work on
\* the same bridge name
C19_Witness ==
  \E p, q \in Procs :
    /\ p # q
    /\ pc[p] = "l75" /\ network_ref[p] = bridge[p]
    /\ pc[q] \in {"l71", "l75"} /\ bridge[q] = bridge[p]
    /\ vlan_num[q] # vlan_num[p]

====
